---- MODULE Spec2Model ----
(***************************************************************************)
(* Binary quadratic forms a x^2 + 2 b x y + c y^2 after Gauss              *)
(* (Gauss_QF/Gauss_QF.py, Gauss_QF/_GaussUtils.py): the reduction          *)
(* algorithm, the period of an indefinite form, Shanks' composition and    *)
(* the extended Euclidean algorithm.  A form is the triple <<a, b, c>>.    *)
(***************************************************************************)
EXTENDS Integers, Sequences, FiniteSets, TLC

VARIABLES op, pc, self, other, red, progression, i, res_dict,
          cap, ori, progression_p, period_ret, composed, shanks,
          gcd_in, gcd_ret, raised, prev

vars == <<op, pc, self, other, red, progression, i, res_dict,
          cap, ori, progression_p, period_ret, composed, shanks,
          gcd_in, gcd_ret, raised, prev>>

(***************************************************************************)
(* Bounds of the model.                                                    *)
(***************************************************************************)
\* coefficients of the forms handed to reducing, period and compose
MaxCoef == 3
\* arguments handed to gcdxy
MaxGcd == 6
\* longest progression (reducing) or cycle (period) the model follows
MaxLen == 16
\* most iterations of one inner loop of b_sqrt the model follows
MaxIter == 12

Coefs == (-MaxCoef)..MaxCoef
\* the forms of the docstrings of reducing and period
DocForms == {<<5, 6, 10>>, <<9, 7, 11>>, <<2, 4, 7>>}
Forms == (Coefs \X Coefs \X Coefs) \cup DocForms
\* the operands of compose: the forms of negative discriminant, and three
\* forms (semidefinite, indefinite, zero) that compose rejects
ComposeForms == {f \in Coefs \X Coefs \X Coefs : f[2] * f[2] < f[1] * f[3]}
                    \cup {<<1, 1, 1>>, <<1, 2, 1>>, <<0, 0, 0>>}
GcdArgs == (-MaxGcd)..MaxGcd

None == <<>>
NoDict == [Forma |-> None, Progressao |-> None, Comprimento |-> 0]

(***************************************************************************)
(* Python's integer arithmetic.                                            *)
(***************************************************************************)
Abs(x) == IF x < 0 THEN -x ELSE x

Min(x, y) == IF x <= y THEN x ELSE y

\* x % m for m # 0: the result has the sign of m
PyMod(x, m) == IF m > 0 THEN x % m ELSE -((-x) % (-m))

\* int(x / y) for y # 0: true division, then truncation towards zero
TruncDiv(x, y) ==
    LET q == Abs(x) \div Abs(y)
    IN  IF (x < 0) = (y < 0) THEN q ELSE -q

PyFloorDiv_trunc(x, m) == TruncDiv(x, m)

\* x // m for m # 0: floor division
PyFloorDiv(x, m) == TruncDiv(x - PyMod(x, m), m)

(***************************************************************************)
(* numpy's sqrt enters the code only through comparisons of an integer     *)
(* with sq(d) + k, d >= 0 and k an integer.  A limit is the pair           *)
(* [d, off] standing for sq(d) + off; the comparisons are decided in       *)
(* integers (exact for the magnitudes of the model, where the float        *)
(* rounding of sq is far smaller than the gap between sq(d) and the        *)
(* nearest integer, or sq(d) is that integer).                             *)
(***************************************************************************)
\* x <= sq(d)
SqLe(x, d) == x <= 0 \/ x * x <= d
\* x < sq(d)
SqLt(x, d) == x < 0 \/ x * x < d

Lim(d, off) == [d |-> d, off |-> off]
\* x < lim
LtLim(x, lim) == SqLt(x - lim.off, lim.d)
\* lim < x
GtLim(x, lim) == ~SqLe(x - lim.off, lim.d)

\* sq(n).is_integer(), n >= 0
IsSquare(n) == \E k \in 0..n : k * k = n

(***************************************************************************)
(* _GaussUtils.py                                                          *)
(***************************************************************************)
\* what a raised ZeroDivisionError leaves in place of a result
ZeroDiv == <<>>

\* gcdxy(a, b): <<gcd, x, y>>, or ZeroDiv when a remainder or quotient
\* by zero is taken
RECURSIVE gcdxy(_, _)
gcdxy(a, b) ==
    IF a = 0
    THEN <<b, 0, 1>>
    ELSE LET divisor == a
         IN  IF divisor = 0
             THEN ZeroDiv
             ELSE LET rec == gcdxy(PyMod(b, divisor), a)
                  IN  IF rec = ZeroDiv
                      THEN ZeroDiv
                      ELSE <<rec[1],
                             rec[3] - PyFloorDiv(b, divisor) * rec[2],
                             rec[2]>>

\* b_abs_min(b, a), a # 0: the residue of -b modulo a of least absolute
\* value, the unshifted residue on a tie
b_abs_min(b, a) ==
    LET res == PyMod(-b, a)
        res_1 == res - a
        x == Min(Abs(res), Abs(res_1))
    IN  IF x = Abs(res) THEN res ELSE res_1

\* the two while loops of b_sqrt; n is the number of iterations the model
\* still follows, and hung |-> TRUE reports a loop that outlives them
RECURSIVE b_sqrt_inf(_, _, _, _)
b_sqrt_inf_signed(res, a, lim_inf, n) ==
    IF ~LtLim(res, lim_inf)
    THEN [hung |-> FALSE, res |-> res]
    ELSE IF n = 0
         THEN [hung |-> TRUE, res |-> res]
         ELSE b_sqrt_inf(res + a, a, lim_inf, n - 1)

b_sqrt_inf(res, a, lim_inf, n) ==
    IF ~LtLim(res, lim_inf)
    THEN [hung |-> FALSE, res |-> res]
    ELSE IF n = 0
         THEN [hung |-> TRUE, res |-> res]
         ELSE b_sqrt_inf(res + Abs(a), a, lim_inf, n - 1)

RECURSIVE b_sqrt_sup(_, _, _, _)
b_sqrt_sup(res, a, lim_sup, n) ==
    IF ~GtLim(res, lim_sup)
    THEN [hung |-> FALSE, res |-> res]
    ELSE IF n = 0
         THEN [hung |-> TRUE, res |-> res]
         ELSE b_sqrt_sup(res - Abs(a), a, lim_sup, n - 1)

b_sqrt_unsigned(b, a, lim_inf, lim_sup) ==
    LET up == b_sqrt_inf(PyMod(b, a), a, lim_inf, MaxIter)
    IN  IF up.hung THEN up ELSE b_sqrt_sup(up.res, a, lim_sup, MaxIter)

\* b_sqrt(b, a, lim_inf, lim_sup), a # 0
b_sqrt(b, a, lim_inf, lim_sup) ==
    LET up == b_sqrt_inf(PyMod(-b, a), a, lim_inf, MaxIter)
    IN  IF up.hung THEN up ELSE b_sqrt_sup(up.res, a, lim_sup, MaxIter)

(***************************************************************************)
(* Gauss_QF.py: derived quantities and is_reduced                          *)
(***************************************************************************)
determinant(f) == f[2] * f[2] - f[1] * f[3]

discriminant(f) == 4 * f[2] * f[2] - 4 * f[1] * f[3]

\* is_reduced raises ValueError
is_reduced_raises(f) == determinant(f) >= 0 /\ IsSquare(determinant(f))

is_reduced_third(f) ==
    LET a == f[1]
        b == f[2]
        c == f[3]
        d == determinant(f)
    IN  IF d < 0
        THEN LET cond_a == Abs(2 * b) <= Abs(a) /\ Abs(a) <= Abs(c)
                 cond_b == a <= 0 \/ 3 * a * a <= Abs(d)
             IN  cond_a /\ cond_b
        ELSE LET cond_a == /\ ~LtLim(Abs(a), Lim(d, -b))
                           /\ ~GtLim(Abs(a), Lim(d, b))
                 cond_b == 0 < b /\ ~GtLim(b, Lim(d, 0))
             IN  cond_a /\ cond_b

\* is_reduced, where it does not raise
is_reduced(f) ==
    LET a == f[1]
        b == f[2]
        c == f[3]
        d == determinant(f)
    IN  IF d < 0
        THEN LET cond_a == Abs(2 * b) <= Abs(a) /\ Abs(a) <= Abs(c)
                 \* a <= sq(4*abs(d)/3)
                 cond_b == a <= 0 \/ 3 * a * a <= 4 * Abs(d)
             IN  cond_a /\ cond_b
        ELSE LET \* sq(d) - b <= abs(a) <= sq(d) + b
                 cond_a == /\ ~LtLim(Abs(a), Lim(d, -b))
                           /\ ~GtLim(Abs(a), Lim(d, b))
                 \* 0 < b <= sq(d)
                 cond_b == 0 < b /\ ~GtLim(b, Lim(d, 0))
             IN  cond_a /\ cond_b

WhileCond_b(t) ==
    IF determinant(t) < 0
    THEN ~(Abs(2 * t[2]) <= Abs(t[1]))
    ELSE ~(0 < t[2] /\ ~GtLim(t[2], Lim(determinant(t), 0)))

\* the loop condition of reducing: while not Gauss_QF(*red).is_reduced
WhileCond(t) == ~is_reduced(t)

NewC_plus(b, d, a) == TruncDiv(b * b + d, a)

\* int((red[1]**2 - d)/red[0]), the third coefficient of a step
NewC(b, d, a) == TruncDiv(b * b - d, a)

\* one iteration of the loop of the negative branch of reducing
NegStep(t, d) ==
    LET a == t[3]
        b == b_abs_min(t[2], a)
    IN  <<a, b, NewC(b, d, a)>>

\* one iteration of the loop of the positive branch of reducing, and of
\* the loop of period: the new triple, or hung
PosStep(t, d) ==
    LET a == t[3]
        r == b_sqrt(t[2], a, Lim(d, -a), Lim(d, 0))
    IN  IF r.hung
        THEN [hung |-> TRUE, t |-> t]
        ELSE [hung |-> FALSE, t |-> <<a, r.res, NewC(r.res, d, a)>>]

(***************************************************************************)
(* Gauss_QF.compose                                                        *)
(***************************************************************************)
Raise(e) == [raised |-> e, composed |-> None, shanks |-> None]

\* compose after the canonicalisation self.a <= other.a
compose_body(f, g) ==
    LET s == f[2] + g[2]
        n == 2 * g[2] - s
    IN  IF f[1] = 0 THEN Raise("ZeroDivisionError") ELSE
        LET divides == PyMod(g[1], f[1]) = 0
            y_1 == IF divides THEN 0 ELSE gcdxy(g[1], f[1])[2]
            d == IF divides THEN f[1] ELSE gcdxy(g[1], f[1])[1]
        IN  IF d = 0 THEN Raise("ZeroDivisionError") ELSE
            LET divides_s == PyMod(s, d) = 0
                y_2 == IF divides_s THEN -1 ELSE -gcdxy(s, d)[3]
                x_2 == IF divides_s THEN 0 ELSE gcdxy(s, d)[2]
                d_1 == IF divides_s THEN d ELSE gcdxy(s, d)[1]
            IN  IF d_1 = 0 THEN Raise("ZeroDivisionError") ELSE
                LET v_1 == TruncDiv(f[1], d_1)
                    v_2 == TruncDiv(g[1], d_1)
                IN  IF v_1 = 0 THEN Raise("ZeroDivisionError") ELSE
                    LET r == PyMod(y_1 * y_2 * n - x_2 * g[3], v_1)
                        b_3 == 2 * (g[2] + v_2 * r)
                        a_3 == v_1 * v_2
                    IN  IF a_3 = 0 THEN Raise("ZeroDivisionError") ELSE
                        [raised |-> "none",
                         composed |-> <<a_3,
                                        TruncDiv(b_3, 2),
                                        TruncDiv(b_3 * b_3 - 4 * determinant(f),
                                                 4 * a_3)>>,
                         \* the locals of the call that did the work
                         shanks |-> [f |-> f, g |-> g, d_1 |-> d_1,
                                     v_1 |-> v_1, v_2 |-> v_2,
                                     a_3 |-> a_3, b_3 |-> b_3]]

compose(f, g) ==
    IF ~(discriminant(f) < 0) \/ ~(discriminant(g) < 0)
    THEN Raise("TypeError")
    ELSE IF f[1] > g[1] THEN compose_body(g, f) ELSE compose_body(f, g)

(***************************************************************************)
(* The state machine: one call of reducing, period, compose or gcdxy on    *)
(* arguments of the bounded sets; the loops of reducing and period run one *)
(* iteration per step.                                                     *)
(***************************************************************************)
Init ==
    /\ op = "none"
    /\ pc = "idle"
    /\ self = None
    /\ other = None
    /\ red = None
    /\ progression = None
    /\ i = 0
    /\ res_dict = NoDict
    /\ cap = None
    /\ ori = None
    /\ progression_p = None
    /\ period_ret = None
    /\ composed = None
    /\ shanks = None
    /\ gcd_in = None
    /\ gcd_ret = None
    /\ raised = "none"
    /\ prev = None

Range(seq) == {seq[k] : k \in 1..Len(seq)}

Front(seq) == SubSeq(seq, 1, Len(seq) - 1)

Last(seq) == seq[Len(seq)]

\* an exception leaves the call
Raises(e) ==
    /\ pc' = "raised"
    /\ raised' = e

\* reducing returns res_dict; inside period the caller goes on with
\* cap = self.reducing()['Progressao'], red, ori = list(cap[-1]), ...,
\* progression = []
ReducingReturns(final, prog, len, caller) ==
    /\ res_dict' = [Forma |-> final, Progressao |-> prog, Comprimento |-> len]
    /\ raised' = raised
    /\ IF caller = "period"
       THEN /\ cap' = prog
            /\ ori' = Last(prog)
            /\ progression_p' = <<>>
            /\ pc' = "while_cycle"
       ELSE /\ pc' = "returned"
            /\ UNCHANGED <<cap, ori, progression_p>>

ReducingEnter_i0(f, caller) ==
    /\ progression' = <<f>>
    /\ IF is_reduced_raises(f)
       THEN /\ Raises("ValueError")
            /\ red' = f
            /\ UNCHANGED <<i, res_dict, cap, ori, progression_p>>
       ELSE IF is_reduced(f)
            THEN /\ ReducingReturns(f, <<f>>, 1, caller)
                 /\ red' = f
                 /\ UNCHANGED i
            ELSE /\ i' = 0
                 /\ red' = f
                 /\ IF determinant(f) < 0
                    THEN pc' = "while_neg" /\ raised' = raised
                    ELSE IF IsSquare(determinant(f))
                         THEN Raises("TypeError")
                         ELSE pc' = "while_pos" /\ raised' = raised
                 /\ UNCHANGED <<res_dict, cap, ori, progression_p>>

\* the body of reducing up to its loops
ReducingEnter(f, caller) ==
    /\ progression' = <<f>>
    /\ IF is_reduced_raises(f)
       THEN /\ Raises("ValueError")
            /\ red' = f
            /\ UNCHANGED <<i, res_dict, cap, ori, progression_p>>
       ELSE IF is_reduced(f)
            THEN /\ ReducingReturns(f, <<f>>, 1, caller)
                 /\ red' = f
                 /\ UNCHANGED i
            ELSE /\ i' = 1
                 /\ red' = f
                 /\ IF determinant(f) < 0
                    THEN pc' = "while_neg" /\ raised' = raised
                    ELSE IF IsSquare(determinant(f))
                         THEN Raises("TypeError")
                         ELSE pc' = "while_pos" /\ raised' = raised
                 /\ UNCHANGED <<res_dict, cap, ori, progression_p>>

\* f.reducing()
ReducingCall ==
    /\ pc = "idle"
    /\ \E f \in Forms :
        /\ op' = "reducing"
        /\ self' = f
        /\ ReducingEnter(f, "reducing")
    /\ UNCHANGED <<other, period_ret, composed, shanks, gcd_in, gcd_ret, prev>>

\* f.reduced.reducing(): reducing called on the form reducing returned
ReducedReducing ==
    /\ pc = "returned"
    /\ op = "reducing"
    /\ prev = None
    /\ prev' = res_dict.Forma
    /\ self' = res_dict.Forma
    /\ ReducingEnter(res_dict.Forma, "reducing")
    /\ UNCHANGED <<op, other, period_ret, composed, shanks, gcd_in, gcd_ret>>

\* one test of the loop of the negative branch, and its body
WhileNeg ==
    /\ pc = "while_neg"
    /\ IF is_reduced_raises(red)
       THEN /\ Raises("ValueError")
            /\ UNCHANGED <<red, progression, i, res_dict, cap, ori,
                           progression_p>>
       ELSE IF ~WhileCond(red)
            THEN /\ ReducingReturns(red, progression, i, op)
                 /\ UNCHANGED <<red, progression, i>>
            ELSE /\ Len(progression) < MaxLen
                 /\ IF red[3] = 0
                    THEN /\ Raises("ZeroDivisionError")
                         /\ UNCHANGED <<red, progression, i>>
                    ELSE /\ red' = NegStep(red, determinant(self))
                         /\ progression' = Append(progression, red')
                         /\ i' = i + 1
                         /\ UNCHANGED <<pc, raised>>
                 /\ UNCHANGED <<res_dict, cap, ori, progression_p>>
    /\ UNCHANGED <<op, self, other, period_ret, composed, shanks, gcd_in, gcd_ret,
                   prev>>

\* one test of the loop of the positive branch, and its body
WhilePos ==
    /\ pc = "while_pos"
    /\ IF is_reduced_raises(red)
       THEN /\ Raises("ValueError")
            /\ UNCHANGED <<red, progression, i, res_dict, cap, ori,
                           progression_p>>
       ELSE IF ~WhileCond(red)
            THEN /\ ReducingReturns(red, progression, i, op)
                 /\ UNCHANGED <<red, progression, i>>
            ELSE /\ Len(progression) < MaxLen
                 /\ IF red[3] = 0
                    THEN /\ Raises("ZeroDivisionError")
                         /\ UNCHANGED <<red, progression, i>>
                    ELSE LET step == PosStep(red, determinant(self))
                         IN  IF step.hung
                             THEN /\ pc' = "hung"
                                  /\ UNCHANGED <<red, progression, i, raised>>
                             ELSE /\ red' = step.t
                                  /\ progression' = Append(progression, red')
                                  /\ i' = i + 1
                                  /\ UNCHANGED <<pc, raised>>
                 /\ UNCHANGED <<res_dict, cap, ori, progression_p>>
    /\ UNCHANGED <<op, self, other, period_ret, composed, shanks, gcd_in, gcd_ret,
                   prev>>

PeriodResult_keep(r, p) == p

\* progression.pop(); progression.insert(0, tuple(red))
PeriodResult(r, p) == <<r>> \o Front(p)

PeriodBody_nosign(f) ==
    /\ op' = "period"
    /\ self' = f
    /\ IF IsSquare(determinant(f))
       THEN /\ Raises("ValueError")
            /\ UNCHANGED <<red, progression, i, res_dict, cap, ori,
                           progression_p>>
       ELSE ReducingEnter(f, "period")

\* f.period() up to its loop
PeriodBody(f) ==
    /\ op' = "period"
    /\ self' = f
    /\ IF determinant(f) < 0
       THEN /\ Raises("TypeError")
            /\ UNCHANGED <<red, progression, i, res_dict, cap, ori,
                           progression_p>>
       ELSE IF IsSquare(determinant(f))
            THEN /\ Raises("ValueError")
                 /\ UNCHANGED <<red, progression, i, res_dict, cap, ori,
                                progression_p>>
            ELSE ReducingEnter(f, "period")

PeriodCall ==
    /\ pc = "idle"
    /\ \E f \in Forms : PeriodBody(f)
    /\ UNCHANGED <<other, period_ret, composed, shanks, gcd_in, gcd_ret, prev>>

\* one test of the loop of period, and its body or the return
WhileCycle ==
    /\ pc = "while_cycle"
    /\ IF red \in Range(progression_p)
       THEN /\ period_ret' = <<cap, PeriodResult(red, progression_p)>>
            /\ pc' = "returned"
            /\ UNCHANGED <<ori, progression_p, raised>>
       ELSE /\ Len(progression_p) < MaxLen
            /\ IF ori[3] = 0
               THEN /\ Raises("ZeroDivisionError")
                    /\ UNCHANGED <<ori, progression_p>>
               ELSE LET step == PosStep(ori, determinant(self))
                    IN  IF step.hung
                        THEN /\ pc' = "hung"
                             /\ UNCHANGED <<ori, progression_p, raised>>
                        ELSE /\ ori' = step.t
                             /\ progression_p' = Append(progression_p, ori')
                             /\ UNCHANGED <<pc, raised>>
            /\ UNCHANGED period_ret
    /\ UNCHANGED <<op, self, other, red, progression, i, res_dict, cap,
                   composed, shanks, gcd_in, gcd_ret, prev>>

\* f.compose(g)
ComposeCall ==
    /\ pc = "idle"
    /\ \E f \in ComposeForms, g \in ComposeForms :
        /\ op' = "compose"
        /\ self' = f
        /\ other' = g
        /\ LET ret == compose(f, g)
           IN  /\ composed' = ret.composed
               /\ shanks' = ret.shanks
               /\ raised' = ret.raised
               /\ pc' = IF ret.raised = "none" THEN "returned" ELSE "raised"
    /\ UNCHANGED <<red, progression, i, res_dict, cap, ori, progression_p,
                   period_ret, gcd_in, gcd_ret, prev>>

\* gcdxy(a, b)
GcdxyCall ==
    /\ pc = "idle"
    /\ \E a \in GcdArgs, b \in GcdArgs :
        /\ op' = "gcdxy"
        /\ gcd_in' = <<a, b>>
        /\ LET ret == gcdxy(a, b)
           IN  IF ret = ZeroDiv
               THEN Raises("ZeroDivisionError") /\ gcd_ret' = None
               ELSE pc' = "returned" /\ raised' = raised /\ gcd_ret' = ret
    /\ UNCHANGED <<self, other, red, progression, i, res_dict, cap, ori,
                   progression_p, period_ret, composed, shanks, prev>>

Next ==
    \/ ReducingCall
    \/ ReducedReducing
    \/ WhileNeg
    \/ WhilePos
    \/ PeriodCall
    \/ WhileCycle
    \/ ComposeCall
    \/ GcdxyCall

Spec == Init /\ [][Next]_vars

\* the program is sequential: a loop that can take its next iteration
\* takes it
FairSpec ==
    /\ Init /\ [][Next]_vars
    /\ WF_vars(WhileNeg) /\ WF_vars(WhilePos) /\ WF_vars(WhileCycle)

(***************************************************************************)
(* Properties                                                              *)
(***************************************************************************)
Divides(k, n) == \E q \in (-Abs(n))..Abs(n) : n = q * k

\* the greatest common divisor of m >= 0 and n >= 0, 0 for m = n = 0
GCD(m, n) ==
    IF m = 0 /\ n = 0
    THEN 0
    ELSE CHOOSE g \in 1..(m + n) :
            /\ Divides(g, m) /\ Divides(g, n)
            /\ \A h \in (g + 1)..(m + n) : ~(Divides(h, m) /\ Divides(h, n))

NoDuplicates(seq) ==
    \A j \in 1..Len(seq), k \in 1..Len(seq) : seq[j] = seq[k] => j = k

ReducingReturned == op = "reducing" /\ pc = "returned"

PeriodDefined(f) == determinant(f) > 0 /\ ~IsSquare(determinant(f))

PeriodReturned == op = "period" /\ pc = "returned"

\* C1: in the progression reducing returns, any two consecutive triples
\* have the same determinant b^2 - a*c.
C1_DeterminantPreserved ==
    LET P == res_dict.Progressao
    IN  \A k \in 1..(Len(P) - 1) :
            determinant(P[k + 1]) = determinant(P[k])

C1_Witness ==
    /\ ReducingReturned
    /\ determinant(self) > 0
    /\ Len(res_dict.Progressao) >= 3

\* C2: the form reducing returns is reduced, and reducing it again returns
\* it unchanged with a progression of length 1.
C2_ReduceIdempotent ==
    /\ ReducingReturned => is_reduced(res_dict.Forma)
    /\ prev # None =>
          /\ pc = "returned"
          /\ res_dict = [Forma |-> prev, Progressao |-> <<prev>>,
                         Comprimento |-> 1]

C2_Witness == ReducingReturned /\ prev # None /\ i >= 2

SameDiscriminant ==
    /\ op = "compose"
    /\ discriminant(self) < 0
    /\ discriminant(self) = discriminant(other)

\* C3: composing two forms of the same negative discriminant returns a
\* form of that discriminant.
C3_ComposeDiscriminant ==
    SameDiscriminant =>
        /\ pc = "returned"
        /\ discriminant(composed) = discriminant(self)

C3_Witness ==
    /\ SameDiscriminant
    /\ pc = "returned"
    /\ self # other
    /\ Abs(self[1]) > 1 /\ Abs(other[1]) > 1
    /\ PyMod(other[1], self[1]) # 0 /\ PyMod(self[1], other[1]) # 0

\* C4: gcdxy(a, b) returns (g, x, y) with a*x + b*y = g and |g| the
\* greatest common divisor of |a| and |b|, and never divides by zero.
C4_GcdxyBezout ==
    op = "gcdxy" =>
        /\ pc = "returned"
        /\ raised # "ZeroDivisionError"
        /\ LET a == gcd_in[1]
               b == gcd_in[2]
               g == gcd_ret[1]
               x == gcd_ret[2]
               y == gcd_ret[3]
           IN  /\ a * x + b * y = g
               /\ Abs(g) = GCD(Abs(a), Abs(b))

C4_Witness ==
    /\ op = "gcdxy"
    /\ pc = "returned"
    /\ gcd_in[1] < 0 /\ gcd_in[2] > 0
    /\ Abs(gcd_ret[1]) > 1
    /\ Abs(gcd_ret[1]) < Abs(gcd_in[1])

InLoop == pc \in {"while_neg", "while_pos"}

LoopDone ==
    /\ pc \in {"returned", "while_cycle"}
    /\ res_dict # NoDict
    /\ is_reduced(res_dict.Forma)

\* C7: a loop of reducing, once entered, ends at a reduced triple, and no
\* inner loop of b_sqrt runs on.
C7_ReducingTerminates == InLoop ~> LoopDone

C7_Witness ==
    /\ ReducingReturned
    /\ prev = None
    /\ determinant(self) > 0
    /\ \E k \in 2..Len(res_dict.Progressao) : res_dict.Progressao[k][1] < 0
    /\ \E k \in 2..Len(res_dict.Progressao) : res_dict.Progressao[k][1] > 0

\* C8: period raises, before any step of reducing or of the cycle, for a
\* determinant that is negative, zero or a perfect square, and returns only
\* for a positive non-square determinant.
C8_PeriodRejects ==
    op = "period" =>
        IF PeriodDefined(self)
        THEN pc # "raised"
        ELSE /\ pc = "raised"
             /\ raised \in {"TypeError", "ValueError"}
             /\ progression = None
             /\ progression_p = None
             /\ res_dict = NoDict
             /\ period_ret = None

C8_Witness ==
    /\ op = "period"
    /\ pc = "raised"
    /\ determinant(self) > 0

Doc247 == <<2, 4, 7>>

Doc247Progression == << <<2, 4, 7>>, <<7, -4, 2>>, <<2, 0, -1>>, <<-1, 1, 1>> >>

Doc5610 == <<5, 6, 10>>

Consecutive(seq) == {<<seq[k], seq[k + 1]>> : k \in 1..(Len(seq) - 1)}

PosSteps ==
    IF op \in {"reducing", "period"} /\ self # None /\ determinant(self) > 0
    THEN Consecutive(progression)
            \cup (IF pc \in {"while_cycle", "returned"} /\ red # None
                  THEN Consecutive(<<red>> \o progression_p)
                  ELSE {})
    ELSE {}

\* new_b is congruent to -old_b modulo new_a
StepCongruent(old, new) == Divides(new[1], new[2] + old[2])

\* C11 as claimed: in every step of the positive branch new_a = old_c and
\* new_b is congruent to -old_b modulo new_a and lies in
\* [sqrt(d) - new_a, sqrt(d)], whatever the sign of new_a.
C11_AsClaimed ==
    \A st \in PosSteps :
        LET old == st[1]
            new == st[2]
            d == determinant(self)
        IN  /\ new[1] = old[3]
            /\ StepCongruent(old, new)
            /\ ~LtLim(new[2], Lim(d, -new[1]))
            /\ ~GtLim(new[2], Lim(d, 0))

\* C11 amended: in every step of the positive branch new_a = old_c and
\* new_b is congruent to -old_b modulo new_a and lies in
\* [sqrt(d) - |new_a|, sqrt(d)].
C11_StepInterval ==
    \A st \in PosSteps :
        LET old == st[1]
            new == st[2]
            d == determinant(self)
        IN  /\ new[1] = old[3]
            /\ StepCongruent(old, new)
            /\ ~LtLim(new[2], Lim(d, -Abs(new[1])))
            /\ ~GtLim(new[2], Lim(d, 0))

C11_Witness ==
    /\ op = "period"
    /\ pc = "while_cycle"
    /\ \E st \in Consecutive(progression) : st[2][1] < 0 /\ st[2][2] # -st[1][2]
    /\ \E st \in Consecutive(<<red>> \o progression_p) : st[2][1] < 0
    /\ \E st \in Consecutive(<<red>> \o progression_p) : st[2][1] > 1

\* C12: for every pair of forms compose accepts, d_1 divides both leading
\* coefficients (v_1*d_1 = f.a and v_2*d_1 = g.a, with f.a <= g.a) and
\* 4*a_3 divides b_3^2 - 4*f.determinant, so that c_3 is exact.
C12_DivisionsExact ==
    (op = "compose" /\ pc = "returned") =>
        LET f == shanks.f
            g == shanks.g
            num == shanks.b_3 * shanks.b_3 - 4 * determinant(f)
        IN  /\ f[1] <= g[1]
            /\ shanks.v_1 * shanks.d_1 = f[1]
            /\ shanks.v_2 * shanks.d_1 = g[1]
            /\ Divides(4 * shanks.a_3, num)
            /\ 4 * shanks.a_3 * composed[3] = num

\* the forms of negative determinant is_reduced was applied to
TestedNegative ==
    {t \in (IF op \in {"reducing", "period"} THEN {self} ELSE {})
              \cup Range(progression) : determinant(t) < 0}

\* |2b| <= |a| <= |c|
FirstCondition(t) == Abs(2 * t[2]) <= Abs(t[1]) /\ Abs(t[1]) <= Abs(t[3])

\* C13: for a negative determinant |2b| <= |a| <= |c| implies
\* a <= sqrt(4*|determinant|/3), that is a <= 0 or 3*a^2 <= 4*|determinant|,
\* and is_reduced is true exactly when |2b| <= |a| <= |c|.
C13_SecondConditionRedundant ==
    \A t \in TestedNegative :
        /\ FirstCondition(t) =>
              (t[1] <= 0 \/ 3 * t[1] * t[1] <= 4 * Abs(determinant(t)))
        /\ is_reduced(t) <=> FirstCondition(t)

C13_Witness ==
    /\ ReducingReturned
    /\ prev = None
    /\ determinant(self) < 0
    /\ FirstCondition(self)
    /\ self[1] > 0
    /\ 3 * self[1] * self[1] = 4 * Abs(determinant(self))

====
